---- MODULE Spec2Model ----
(***************************************************************************)
(* Model of op-service/rethdb-reader/src/receipts.rs: the request path     *)
(* read_receipts_inner (argument conversion, provider lookups, hydration   *)
(* of every (transaction, receipt) pair, JSON serialisation, hand-off of   *)
(* the buffer to the caller) and the hydrator                              *)
(* build_transaction_receipt_with_block_receipts.                          *)
(*                                                                         *)
(* Sequences are 1-based here and 0-based in the source: the source index  *)
(* i is position i + 1 of a sequence.  u64 is modelled with a reduced      *)
(* width of U64Bits bits; arithmetic that can leave the range behaves as   *)
(* the build dictates (overflow_checks: panic, otherwise wrap).            *)
(***************************************************************************)
EXTENDS Integers, Sequences, FiniteSets, TLC

\* ------------------------------------------------------------- bounds
MaxTxs == 2
MaxBuffers == 2
U64Bits == 3

\* ---------------------------------------------------------- constants
B256Len == 32

Null == 0
None == [tag |-> "None"]
Some(v) == [tag |-> "Some", val |-> v]
Panic == [tag |-> "Panic"]
Free == [alloc |-> FALSE, bytes |-> <<>>]

U64Modulus == 2 ^ U64Bits
U64Max == U64Modulus - 1

Min(a, b) == IF a <= b THEN a ELSE b

\* ------------------------------------------------------------- inputs
\* Signed transactions: signer is None when the signature is unrecoverable.
TxCall == [hash |-> "tx_call", signer |-> Some("alice"),
           kind |-> [tag |-> "Call", addr |-> "bob"], nonce |-> 0, tx_type |-> 2]
TxCreate == [hash |-> "tx_create", signer |-> Some("alice"),
             kind |-> [tag |-> "Create"], nonce |-> 1, tx_type |-> 0]
TxBadSig == [hash |-> "tx_badsig", signer |-> None,
             kind |-> [tag |-> "Call", addr |-> "carol"], nonce |-> 0, tx_type |-> 2]
Transactions == {TxCall, TxCreate, TxBadSig}

SeqsUpTo(S, n) == UNION {[1..k -> S] : k \in 0..n}

LogLists == {<<>>, <<"log_a", "log_b">>}
GasValues == {0, 1, U64Max}
Receipts == [tx_type : {2}, success : BOOLEAN, cumulative_gas_used : GasValues,
             logs : LogLists]

Bodies == SeqsUpTo(Transactions, MaxTxs)
ReceiptLists == SeqsUpTo(Receipts, MaxTxs)
Blocks == [number : {9942861}, base_fee_per_gas : {Some(7)}, hash : {"block_hash"},
           body : Bodies]

\* A narrow input space for runs that keep several buffers alive.
FewBlocks == {b \in Blocks : b.body \in {<<>>, <<TxCall>>, <<TxBadSig>>, <<TxCreate, TxCall>>}}
FewReceiptLists == {rs \in ReceiptLists :
                      \A i \in DOMAIN rs : /\ rs[i].success
                                           /\ rs[i].cumulative_gas_used = 1
                                           /\ rs[i].logs # <<>>}

Addrs == 1..MaxBuffers

VARIABLES overflow_checks, pc, args, opened, block, receipts, idx, built,
          result, res, heap, held, h_args, h_out

vars == <<overflow_checks, pc, args, opened, block, receipts, idx, built,
          result, res, heap, held, h_args, h_out>>


\* ------------------------------------------------- ReceiptsResult (FFI)
\* Variant: the success constructor raises the error flag.
success_flagged(data, data_len) == [data |-> data, data_len |-> data_len, error |-> TRUE]

success(data, data_len) == [data |-> data, data_len |-> data_len, error |-> FALSE]

fail == [data |-> Null, data_len |-> 0, error |-> TRUE]

Ok(v) == [tag |-> "Ok", val |-> v]
Err(msg) == [tag |-> "Err", msg |-> msg]
NoResult == [tag |-> "Pending"]

\* The exported entry point turns an Err of read_receipts_inner into fail().
rdb_read_receipts(r) == IF r.tag = "Ok" THEN r.val ELSE fail

\* ------------------------------------------------------- the hydrator
\* u64 subtraction: panics in a build with overflow checks, wraps otherwise.
sub_u64(a, b) ==
    IF a >= b THEN Some(a - b)
    ELSE IF overflow_checks THEN Panic
    ELSE Some(a - b + U64Modulus)

\* tx.clone().into_ecrecovered()
into_ecrecovered(tx) == tx.signer

\* Address::create(nonce): a deterministic function of sender and nonce.
create(sender, nonce) == <<"create", sender, nonce>>

effective_gas_price(tx, base_fee) == <<"effective_gas_price", tx.hash, base_fee>>

bloom_slow(receipt) == {receipt.logs[i] : i \in DOMAIN receipt.logs}

\* Variant: the previous receipt is looked up at the transaction's own index.
gas_used_of_own_index(meta, receipt, all_receipts) ==
    IF meta.index = 0 THEN Some(receipt.cumulative_gas_used)
    ELSE IF meta.index + 1 \in DOMAIN all_receipts
         THEN sub_u64(receipt.cumulative_gas_used,
                      all_receipts[meta.index + 1].cumulative_gas_used)
         ELSE Some(0)

\* Variant: a missing previous receipt is unwrapped instead of defaulted.
gas_used_of_unwrap(meta, receipt, all_receipts) ==
    IF meta.index = 0 THEN Some(receipt.cumulative_gas_used)
    ELSE IF meta.index \in DOMAIN all_receipts
         THEN sub_u64(receipt.cumulative_gas_used,
                      all_receipts[meta.index].cumulative_gas_used)
         ELSE Panic

gas_used_of(meta, receipt, all_receipts) ==
    IF meta.index = 0 THEN Some(receipt.cumulative_gas_used)
    ELSE LET prev_tx_idx == meta.index - 1
         IN IF prev_tx_idx + 1 \in DOMAIN all_receipts
            THEN sub_u64(receipt.cumulative_gas_used,
                         all_receipts[prev_tx_idx + 1].cumulative_gas_used)
            ELSE Some(0)

\* Variant: a creation also reports the sender as recipient.
kind_fields_both(tx, signer) ==
    IF tx.kind.tag = "Create"
    THEN [to |-> Some(signer), contract_address |-> Some(create(signer, tx.nonce))]
    ELSE [to |-> Some(tx.kind.addr), contract_address |-> None]

kind_fields(tx, signer) ==
    IF tx.kind.tag = "Create"
    THEN [to |-> None, contract_address |-> Some(create(signer, tx.nonce))]
    ELSE [to |-> Some(tx.kind.addr), contract_address |-> None]

RECURSIVE SumLogs(_, _)
SumLogs(rs, n) == IF n = 0 THEN 0 ELSE SumLogs(rs, n - 1) + Len(rs[n].logs)

\* Variant: the count also takes the transaction's own receipt.
num_logs_before_inclusive(meta, all_receipts) ==
    SumLogs(all_receipts, Min(meta.index + 1, Len(all_receipts)))

\* all_receipts.iter().take(meta.index): the log counts of the earlier receipts.
num_logs_before(meta, all_receipts) ==
    SumLogs(all_receipts, Min(meta.index, Len(all_receipts)))

rpc_logs(meta, receipt, num_logs) ==
    [k \in DOMAIN receipt.logs |->
        [log |-> receipt.logs[k],
         block_hash |-> Some(meta.block_hash),
         block_number |-> Some(meta.block_number),
         transaction_hash |-> Some(meta.tx_hash),
         transaction_index |-> Some(meta.index),
         log_index |-> Some(num_logs + (k - 1)),
         removed |-> FALSE]]

build_transaction_receipt_with_block_receipts(tx, meta, receipt, all_receipts) ==
    LET transaction == into_ecrecovered(tx)
        gas_used == gas_used_of(meta, receipt, all_receipts)
        kf == kind_fields(tx, transaction.val)
    IN IF transaction.tag = "None" THEN None
       ELSE IF gas_used.tag = "Panic" THEN Panic
       ELSE Some([transaction_hash |-> Some(meta.tx_hash),
                  transaction_index |-> meta.index,
                  block_hash |-> Some(meta.block_hash),
                  block_number |-> Some(meta.block_number),
                  from |-> transaction.val,
                  to |-> kf.to,
                  cumulative_gas_used |-> receipt.cumulative_gas_used,
                  gas_used |-> gas_used,
                  contract_address |-> kf.contract_address,
                  logs |-> rpc_logs(meta, receipt, num_logs_before(meta, all_receipts)),
                  effective_gas_price |-> effective_gas_price(tx, meta.base_fee),
                  transaction_type |-> tx.tx_type,
                  state_root |-> None,
                  logs_bloom |-> bloom_slow(receipt),
                  status_code |-> IF receipt.success THEN Some(1) ELSE Some(0),
                  blob_gas_price |-> None,
                  blob_gas_used |-> None])

\* ---------------------------------------------------- the request path
\* Variant: a 1-based transaction index.
TransactionMeta_one_based(tx, i, blk) ==
    [tx_hash |-> tx.hash, index |-> i + 1, block_hash |-> blk.hash,
     block_number |-> blk.number, base_fee |-> blk.base_fee_per_gas,
     excess_blob_gas |-> None]

TransactionMeta(tx, i, blk) ==
    [tx_hash |-> tx.hash, index |-> i, block_hash |-> blk.hash,
     block_number |-> blk.number, base_fee |-> blk.base_fee_per_gas,
     excess_blob_gas |-> None]

\* body.into_iter().zip(receipts.clone()): as many pairs as the shorter list.
zip_len(body, rs) == Min(Len(body), Len(rs))

\* Variant: an absent item is skipped (filter_map) instead of failing the lot.
collect_option_skip(acc, item) ==
    IF item.tag = "None" THEN Some(acc) ELSE Some(Append(acc, item.val))

\* collect::<Option<Vec<_>>>(): one absent item makes the whole collection absent.
collect_option(acc, item) ==
    IF item.tag = "None" THEN None ELSE Some(Append(acc, item.val))

\* serde_json::to_string of a Vec: "[", the objects separated by ",", "]".
RECURSIVE json_items(_)
json_items(recs) ==
    IF recs = <<>> THEN <<>>
    ELSE IF Len(recs) = 1 THEN <<[tok |-> "obj", val |-> recs[1]]>>
    ELSE <<[tok |-> "obj", val |-> recs[1]], [tok |-> ","]>> \o json_items(Tail(recs))

to_string(recs) == <<[tok |-> "["]>> \o json_items(recs) \o <<[tok |-> "]"]>>

\* serde_json::from_slice::<Vec<TransactionReceipt>>
from_slice(bytes) ==
    LET objs == SelectSeq(bytes, LAMBDA t : t.tok = "obj")
    IN [i \in DOMAIN objs |-> objs[i].val]

\* Variant: the string is not forgotten and is dropped at scope end.
mem_forget_missing(owned, a) == owned

\* std::mem::forget: the value leaves the set of locals dropped at scope end.
mem_forget(owned, a) == owned \ {a}

NotHeld == [tag |-> "NotHeld"]
HeldAddrs == {a \in Addrs : held[a].tag = "Held"}
FreeAddrs == {a \in Addrs : ~heap[a].alloc}

NoArgs == [tag |-> "NoArgs"]
NoBlock == [tag |-> "NoBlock"]
NoReceipts == [tag |-> "NoReceipts"]
Unused == [tag |-> "Unused"]
Pending == [tag |-> "Pending"]

CallInit ==
    /\ pc = "idle"
    /\ args = NoArgs
    /\ opened = FALSE
    /\ block = NoBlock
    /\ receipts = NoReceipts
    /\ idx = 0
    /\ built = <<>>
    /\ result = NoResult
    /\ res = NoResult
    /\ heap = [a \in Addrs |-> Free]
    /\ held = [a \in Addrs |-> NotHeld]

Init ==
    /\ overflow_checks \in BOOLEAN
    /\ CallInit
    /\ h_args = Unused
    /\ h_out = Unused

\* An error return (bail!, `?`): the call ends, the caller gets fail().
Fail(msg) ==
    /\ result' = Err(msg)
    /\ res' = rdb_read_receipts(Err(msg))
    /\ pc' = "done"

\* The caller invokes the entry point with raw references.
Call(cap) ==
    /\ pc = "idle"
    /\ Cardinality(HeldAddrs) < cap
    /\ \E hn \in BOOLEAN, hl \in {B256Len - 1, B256Len, B256Len + 1}, pn \in BOOLEAN, pu \in BOOLEAN :
         args' = [block_hash_null |-> hn, block_hash_len |-> hl,
                  db_path_null |-> pn, db_path_utf8 |-> pu]
    /\ pc' = "block_hash"
    /\ UNCHANGED <<overflow_checks, opened, block, receipts, idx, built, result, res,
                   heap, held, h_args, h_out>>

\* Variant: the slice is taken without the 32-byte conversion check.
ConvertBlockHash_no_len ==
    /\ pc = "block_hash"
    /\ IF args.block_hash_null THEN Fail("block_hash pointer is null")
       ELSE /\ pc' = "db_path"
            /\ UNCHANGED <<result, res>>
    /\ UNCHANGED <<overflow_checks, args, opened, block, receipts, idx, built,
                   heap, held, h_args, h_out>>

ConvertBlockHash ==
    /\ pc = "block_hash"
    /\ IF args.block_hash_null THEN Fail("block_hash pointer is null")
       ELSE IF args.block_hash_len # B256Len THEN Fail("TryFromSliceError")
       ELSE /\ pc' = "db_path"
            /\ UNCHANGED <<result, res>>
    /\ UNCHANGED <<overflow_checks, args, opened, block, receipts, idx, built,
                   heap, held, h_args, h_out>>

ConvertDbPath ==
    /\ pc = "db_path"
    /\ IF args.db_path_null THEN Fail("db path pointer is null")
       ELSE IF ~args.db_path_utf8 THEN Fail("Utf8Error")
       ELSE /\ pc' = "open_db"
            /\ UNCHANGED <<result, res>>
    /\ UNCHANGED <<overflow_checks, args, opened, block, receipts, idx, built,
                   heap, held, h_args, h_out>>

OpenDb ==
    /\ pc = "open_db"
    /\ opened' = TRUE
    /\ \E ok \in BOOLEAN :
         IF ok THEN /\ pc' = "fetch_block"
                    /\ UNCHANGED <<result, res>>
         ELSE Fail("open_db_read_only")
    /\ UNCHANGED <<overflow_checks, args, block, receipts, idx, built,
                   heap, held, h_args, h_out>>

FetchBlock(blocks) ==
    /\ pc = "fetch_block"
    /\ \E b \in blocks \cup {NoBlock} :
         /\ block' = b
         /\ IF b = NoBlock THEN Fail("Failed to fetch block")
            ELSE /\ pc' = "fetch_receipts"
                 /\ UNCHANGED <<result, res>>
    /\ UNCHANGED <<overflow_checks, args, opened, receipts, idx, built,
                   heap, held, h_args, h_out>>

FetchReceipts(lists) ==
    /\ pc = "fetch_receipts"
    /\ \E found \in BOOLEAN :
         IF found
         THEN /\ \E rs \in lists : receipts' = rs
              /\ pc' = "hydrate"
              /\ UNCHANGED <<result, res>>
         ELSE /\ receipts' = NoReceipts
              /\ Fail("Failed to fetch block receipts")
    /\ UNCHANGED <<overflow_checks, args, opened, block, idx, built,
                   heap, held, h_args, h_out>>

\* One turn of the map/collect loop over the zipped pairs.
HydrateNext ==
    /\ pc = "hydrate"
    /\ IF idx < zip_len(block.body, receipts)
       THEN LET tx == block.body[idx + 1]
                meta == TransactionMeta(tx, idx, block)
                item == build_transaction_receipt_with_block_receipts(
                            tx, meta, receipts[idx + 1], receipts)
            IN /\ idx' = idx + 1
               /\ IF item.tag = "Panic"
                  THEN /\ pc' = "panicked"
                       /\ UNCHANGED <<built, result, res>>
                  ELSE LET c == collect_option(built, item)
                       IN IF c.tag = "None"
                          THEN /\ Fail("Failed to build receipts")
                               /\ UNCHANGED built
                          ELSE /\ built' = c.val
                               /\ pc' = "hydrate"
                               /\ UNCHANGED <<result, res>>
       ELSE /\ pc' = "serialize"
            /\ UNCHANGED <<idx, built, result, res>>
    /\ UNCHANGED <<overflow_checks, args, opened, block, receipts,
                   heap, held, h_args, h_out>>

\* Serialise, wrap in a success result, forget the string, return.
Serialize ==
    /\ pc = "serialize"
    /\ \E a \in FreeAddrs :
         LET receipts_json == to_string(built)
             heap1 == [heap EXCEPT ![a] = [alloc |-> TRUE, bytes |-> receipts_json]]
             r == success(a, Len(receipts_json))
             owned == mem_forget({a}, a)
         IN /\ heap' = [x \in Addrs |-> IF x \in owned THEN Free ELSE heap1[x]]
            /\ result' = Ok(r)
            /\ res' = rdb_read_receipts(Ok(r))
    /\ pc' = "done"
    /\ UNCHANGED <<overflow_checks, args, opened, block, receipts, idx, built,
                   held, h_args, h_out>>

\* The caller takes the returned result; a success payload is now its to release.
ReturnToCaller ==
    /\ pc = "done"
    /\ held' = IF res.error THEN held
               ELSE [held EXCEPT ![res.data] =
                        [tag |-> "Held", data_len |-> res.data_len,
                         bytes |-> to_string(built)]]
    /\ pc' = "idle"
    /\ args' = NoArgs
    /\ opened' = FALSE
    /\ block' = NoBlock
    /\ receipts' = NoReceipts
    /\ idx' = 0
    /\ built' = <<>>
    /\ result' = NoResult
    /\ res' = NoResult
    /\ UNCHANGED <<overflow_checks, heap, h_args, h_out>>

\* Release of a payload reference; a null reference is a no-op.
rdb_free_string ==
    /\ pc = "idle"
    /\ \E p \in {Null} \cup HeldAddrs :
         IF p = Null THEN UNCHANGED <<heap, held>>
         ELSE /\ heap' = [heap EXCEPT ![p] = Free]
              /\ held' = [held EXCEPT ![p] = NotHeld]
    /\ UNCHANGED <<overflow_checks, pc, args, opened, block, receipts, idx, built,
                   result, res, h_args, h_out>>

Next ==
    \/ Call(1)
    \/ ConvertBlockHash
    \/ ConvertDbPath
    \/ OpenDb
    \/ FetchBlock(Blocks)
    \/ FetchReceipts(ReceiptLists)
    \/ HydrateNext
    \/ Serialize
    \/ ReturnToCaller
    \/ rdb_free_string

Spec == Init /\ [][Next]_vars

\* The same program with a caller that keeps up to MaxBuffers payloads alive.
NextOwn ==
    \/ Call(MaxBuffers)
    \/ ConvertBlockHash
    \/ ConvertDbPath
    \/ OpenDb
    \/ FetchBlock(FewBlocks)
    \/ FetchReceipts(FewReceiptLists)
    \/ HydrateNext
    \/ Serialize
    \/ ReturnToCaller
    \/ rdb_free_string

SpecOwn == Init /\ [][NextOwn]_vars

\* The hydrator alone, applied to arbitrary arguments.
InitHydrator ==
    /\ overflow_checks \in BOOLEAN
    /\ CallInit
    /\ h_args \in [tx : Transactions, index : 0..(MaxTxs + 1), receipt : Receipts,
                   all_receipts : ReceiptLists]
    /\ h_out = Pending

HydratorCall ==
    /\ h_out = Pending
    /\ h_out' = build_transaction_receipt_with_block_receipts(
                    h_args.tx,
                    TransactionMeta(h_args.tx, h_args.index,
                                    [hash |-> "block_hash", number |-> 9942861,
                                     base_fee_per_gas |-> Some(7)]),
                    h_args.receipt, h_args.all_receipts)
    /\ UNCHANGED <<overflow_checks, pc, args, opened, block, receipts, idx, built,
                   result, res, heap, held, h_args>>

NextHydrator == HydratorCall

SpecHydrator == InitHydrator /\ [][NextHydrator]_vars

\* ------------------------------------------------------------- claims
\* A request that ended with Ok(ReceiptsResult::success(..)).
Succeeded == pc = "done" /\ result.tag = "Ok"

\* What the caller decodes from (data, data_len), as the test does.
Hydrated == from_slice(SubSeq(heap[res.data].bytes, 1, res.data_len))

RECURSIVE Flatten(_)
Flatten(ss) == IF ss = <<>> THEN <<>> ELSE Head(ss) \o Flatten(Tail(ss))

InvalidArgs ==
    /\ args # NoArgs
    /\ \/ args.block_hash_null
       \/ args.block_hash_len # B256Len
       \/ args.db_path_null
       \/ ~args.db_path_utf8

\* C1: in a success result the first receipt's gas_used is the first raw
\* receipt's cumulative gas, and every later receipt's gas_used is the u64
\* difference of its raw cumulative gas and the previous raw receipt's (the
\* plain difference whenever the cumulative values do not decrease).
GasDelta ==
    Succeeded =>
        \A i \in DOMAIN Hydrated :
            LET cur == receipts[i].cumulative_gas_used
            IN /\ i = 1 => Hydrated[i].gas_used = Some(cur)
               /\ i > 1 =>
                    LET prev == receipts[i - 1].cumulative_gas_used
                    IN /\ Hydrated[i].gas_used = Some((cur - prev) % U64Modulus)
                       /\ cur >= prev => Hydrated[i].gas_used = Some(cur - prev)

GasDeltaWitness ==
    /\ Succeeded
    /\ Len(Hydrated) >= 2
    /\ receipts[1].cumulative_gas_used = 1
    /\ receipts[2].cumulative_gas_used = U64Max
    /\ Hydrated[2].gas_used = Some(U64Max - 1)

\* C2: in a success result the logs of all receipts, concatenated in
\* transaction order, carry the log indices 0, 1, 2, ... without gap or
\* repeat; the k-th log of transaction i carries the number of logs of the
\* raw receipts before i, plus k, and is the k-th raw log of that receipt.
LogIndexMonotone ==
    Succeeded =>
        LET flat == Flatten([i \in DOMAIN Hydrated |-> Hydrated[i].logs])
        IN /\ \A j \in DOMAIN flat : flat[j].log_index = Some(j - 1)
           /\ \A i \in DOMAIN Hydrated :
                /\ Len(Hydrated[i].logs) = Len(receipts[i].logs)
                /\ \A k \in DOMAIN Hydrated[i].logs :
                     /\ Hydrated[i].logs[k].log_index
                            = Some(SumLogs(receipts, i - 1) + (k - 1))
                     /\ Hydrated[i].logs[k].log = receipts[i].logs[k]

LogIndexWitness ==
    /\ Succeeded
    /\ Len(Hydrated) >= 2
    /\ Hydrated[1].logs # <<>>
    /\ Hydrated[2].logs # <<>>

\* C3: when the hydrator was invoked on a transaction whose signer cannot be
\* recovered, the request ends in an error and the caller gets the failure
\* result: no success payload exists, not even for the receipts built before.
FailureAtomicity ==
    (/\ pc = "done"
     /\ \E i \in 1..idx : into_ecrecovered(block.body[i]).tag = "None")
    => /\ result.tag = "Err"
       /\ res = fail
       /\ \A a \in Addrs : heap[a].alloc => a \in HeldAddrs

FailureAtomicityWitness ==
    /\ pc = "done"
    /\ idx = 2
    /\ into_ecrecovered(block.body[1]).tag = "Some"
    /\ into_ecrecovered(block.body[2]).tag = "None"
    /\ built # <<>>
    /\ res.error

\* C4: every result handed back has a null payload exactly when its failed
\* flag is set and a zero length exactly when its failed flag is set; a
\* success result, also for a block without transactions, has a non-null
\* payload of non-zero length.
EnvelopeInvariant ==
    pc = "done" =>
        /\ (res.data = Null) <=> res.error
        /\ (res.data_len = 0) <=> res.error
        /\ res.error <=> (result.tag = "Err")

EnvelopeWitness ==
    /\ Succeeded
    /\ block.body = <<>>
    /\ ~res.error
    /\ res.data # Null
    /\ res.data_len > 0

\* C5: the payload of every success result stays allocated, with the bytes it
\* was returned with, from the return of the call until it is released:
\* neither the end of the producing call nor another fetch or release
\* reclaims or rewrites it.
PayloadOwnership ==
    /\ \A a \in HeldAddrs :
         /\ heap[a].alloc
         /\ heap[a].bytes = held[a].bytes
         /\ Len(heap[a].bytes) = held[a].data_len
    /\ (pc = "done" /\ result.tag = "Ok") =>
         /\ res.data \in Addrs \ HeldAddrs
         /\ heap[res.data].alloc
         /\ heap[res.data].bytes = to_string(built)
         /\ Len(heap[res.data].bytes) = res.data_len

PayloadOwnershipWitness ==
    /\ Succeeded
    /\ built # <<>>
    /\ \E a \in HeldAddrs : a # res.data /\ Len(held[a].bytes) > 0
    /\ FreeAddrs = {}

\* C6: a success payload holds one record for each transaction of the
\* block's body.
OneRecordPerTransaction ==
    Succeeded => Len(Hydrated) = Len(block.body)

\* C7: a call with a null block hash, a block hash of another length than 32,
\* a null database path or a path that is not valid text ends in the failure
\* result, never opens the database and never looks up a block or receipts;
\* the block hash is checked before the database path.
InputValidation ==
    InvalidArgs =>
        /\ ~opened
        /\ pc \in {"block_hash", "db_path", "done"}
        /\ block = NoBlock
        /\ idx = 0
        /\ pc = "done" =>
             /\ result.tag = "Err"
             /\ res = fail
             /\ result.msg =
                  IF args.block_hash_null THEN "block_hash pointer is null"
                  ELSE IF args.block_hash_len # B256Len THEN "TryFromSliceError"
                  ELSE IF args.db_path_null THEN "db path pointer is null"
                  ELSE "Utf8Error"

InputValidationWitness ==
    /\ pc = "done"
    /\ ~args.block_hash_null
    /\ args.block_hash_len # B256Len
    /\ args.db_path_null
    /\ result.tag = "Err"

\* C8: every hydrated receipt has exactly one of recipient and contract
\* address: a call has the call target as recipient and no contract address,
\* a creation has the address derived from sender and nonce and no recipient.
CreationCallExclusive ==
    Succeeded =>
        \A i \in DOMAIN Hydrated :
            LET h == Hydrated[i]
                tx == block.body[i]
            IN /\ (h.to.tag = "Some") # (h.contract_address.tag = "Some")
               /\ tx.kind.tag = "Call" =>
                    h.to = Some(tx.kind.addr) /\ h.contract_address = None
               /\ tx.kind.tag = "Create" =>
                    /\ h.contract_address = Some(create(tx.signer.val, tx.nonce))
                    /\ h.to = None

CreationCallWitness ==
    /\ Succeeded
    /\ Len(Hydrated) >= 2
    /\ block.body[1].kind.tag = "Create"
    /\ block.body[2].kind.tag = "Call"

\* C9: in a success result the receipt at position i has transaction index
\* i, is the hydration of the i-th transaction of the block with the i-th
\* raw receipt, and all its logs carry the transaction index i.
IndexFidelity ==
    Succeeded =>
        \A i \in DOMAIN Hydrated :
            LET h == Hydrated[i]
            IN /\ h.transaction_index = i - 1
               /\ h.transaction_hash = Some(block.body[i].hash)
               /\ Some(h.from) = block.body[i].signer
               /\ h.cumulative_gas_used = receipts[i].cumulative_gas_used
               /\ h.status_code = Some(IF receipts[i].success THEN 1 ELSE 0)
               /\ \A k \in DOMAIN h.logs :
                    /\ h.logs[k].transaction_index = Some(i - 1)
                    /\ h.logs[k].transaction_hash = Some(block.body[i].hash)

IndexFidelityWitness ==
    /\ Succeeded
    /\ Len(Hydrated) >= 2
    /\ block.body[1].hash # block.body[2].hash
    /\ Hydrated[2].logs # <<>>

\* C10: the hydrator, given an index above 0 whose previous position is not
\* in all_receipts, does not fail on that account: it returns absent only for
\* an unrecoverable signer, and otherwise a receipt with gas_used 0 and the
\* raw receipt's cumulative gas.
MissingPreviousReceipt ==
    (/\ h_out # Pending
     /\ h_out # Unused
     /\ h_args.index > 0
     /\ h_args.index > Len(h_args.all_receipts))
    => /\ h_out.tag # "Panic"
       /\ (h_out.tag = "None") <=> (into_ecrecovered(h_args.tx).tag = "None")
       /\ h_out.tag = "Some" =>
            /\ h_out.val.gas_used = Some(0)
            /\ h_out.val.cumulative_gas_used = h_args.receipt.cumulative_gas_used

MissingPreviousWitness ==
    /\ h_out.tag = "Some"
    /\ h_args.index = 2
    /\ Len(h_args.all_receipts) = 1
    /\ h_args.receipt.cumulative_gas_used = U64Max
    /\ h_out.val.gas_used = Some(0)
    /\ h_out.val.cumulative_gas_used = U64Max

====
